---- MODULE Spec2Model ----
(***************************************************************************)
(* Model of the lead-generation read API: the slug function of             *)
(* utils/slug_utils.py, the three company endpoints of routers/company.py  *)
(* and the request-scoped database session of db/session.py.               *)
(*                                                                         *)
(* A text is a sequence of characters; a character is a one-letter string, *)
(* except the few non-ASCII code points, which carry a name.  Python's     *)
(* None is the value None below, which is not a sequence of characters.    *)
(***************************************************************************)
EXTENDS Integers, Sequences, FiniteSets, TLC

VARIABLES
    arg,        \* the text handed to generate_slug
    ret,        \* what generate_slug returned for arg
    ret2,       \* what generate_slug returned for ret
    spc,        \* position of the slug calls: "start", "called", "again"
    companies,  \* table dbo.company, in the order the table holds its rows
    job_posts,  \* table dbo.job_post, in the order the table holds its rows
    req,        \* the request being served
    pc,         \* position of the request
    events,     \* what happened on the request's session, in order
    rows,       \* result.scalars().all() of the handler's last row query
    raised,     \* the exception leaving the endpoint, or "none"
    resp        \* the response sent to the client

slugVars == <<arg, ret, ret2, spc>>
storeVars == <<companies, job_posts>>
apiVars == <<req, pc, events, rows, raised, resp>>
vars == <<arg, ret, ret2, spc, companies, job_posts, req, pc, events, rows, raised, resp>>

(* ------------------------------ bounds -------------------------------- *)

\* longest enumerated input of generate_slug
MaxLen == 4
\* most rows of dbo.company
MaxCompanies == 2
\* most rows of dbo.job_post
MaxJobs == 3
\* largest page number requested
MaxPage == 3

(* --------------------------- characters ------------------------------- *)

None == <<"None">>

UpperLetters ==
    <<"A","B","C","D","E","F","G","H","I","J","K","L","M",
      "N","O","P","Q","R","S","T","U","V","W","X","Y","Z">>

LowerLetters ==
    <<"a","b","c","d","e","f","g","h","i","j","k","l","m",
      "n","o","p","q","r","s","t","u","v","w","x","y","z">>

Digits == {"0","1","2","3","4","5","6","7","8","9"}

\* the characters \s matches once the text is ASCII
Whitespace == {" ", "\t", "\n"}

Range(s) == {s[i] : i \in 1..Len(s)}

LowerSet == Range(LowerLetters)

\* code points outside ASCII that the model knows
NonAscii == {"E_ACUTE", "e_acute", "COMBINING_ACUTE", "sharp_s"}

(* ------------------------- sequence helpers --------------------------- *)

RECURSIVE Flatten(_)
Flatten(ss) ==
    IF ss = <<>> THEN <<>> ELSE Head(ss) \o Flatten(Tail(ss))

\* re.sub(run+, rep, t): every maximal run of characters of S becomes rep
RECURSIVE CollapseRuns(_, _, _)
CollapseRuns(t, S, rep) ==
    IF t = <<>> THEN <<>>
    ELSE IF Head(t) \in S
         THEN IF Len(t) > 1 /\ t[2] \in S
              THEN CollapseRuns(Tail(t), S, rep)
              ELSE rep \o CollapseRuns(Tail(t), S, rep)
         ELSE <<Head(t)>> \o CollapseRuns(Tail(t), S, rep)

RECURSIVE LStrip(_, _)
LStrip(t, S) ==
    IF t # <<>> /\ Head(t) \in S THEN LStrip(Tail(t), S) ELSE t

RECURSIVE RStrip(_, _)
RStrip(t, S) ==
    IF t # <<>> /\ t[Len(t)] \in S THEN RStrip(SubSeq(t, 1, Len(t) - 1), S) ELSE t

\* the slip of stripping the left end only
Strip_LeftOnly(t, S) == LStrip(t, S)

\* str.strip(chars)
Strip(t, S) == RStrip(LStrip(t, S), S)

(* --------------------------- generate_slug ---------------------------- *)

\* str.lower() on one character
LowerChar(c) ==
    IF \E i \in 1..26 : UpperLetters[i] = c
    THEN LowerLetters[CHOOSE i \in 1..26 : UpperLetters[i] = c]
    ELSE IF c = "E_ACUTE" THEN "e_acute" ELSE c

\* unicodedata.normalize('NFKD', c): the decomposition of one character
Nfkd(c) ==
    CASE c = "e_acute" -> <<"e", "COMBINING_ACUTE">>
      [] c = "E_ACUTE" -> <<"E", "COMBINING_ACUTE">>
      [] OTHER -> <<c>>

\* encode('ascii', 'ignore').decode('ascii') on one character
AsciiIgnore(c) == IF c \in NonAscii THEN <<>> ELSE <<c>>

\* unicodedata.normalize('NFKD', text)
NfkdText(t) == Flatten([i \in 1..Len(t) |-> Nfkd(t[i])])

\* text.encode('ascii', 'ignore').decode('ascii')
AsciiText(t) == Flatten([i \in 1..Len(t) |-> AsciiIgnore(t[i])])

\* the replacements dictionary, in its insertion order
replacements ==
    << <<"&", <<"a","n","d">> >>,
       <<"@", <<"a","t">> >>,
       <<"#", <<"n","u","m","b","e","r">> >>,
       <<"$", <<"d","o","l","l","a","r">> >>,
       <<"%", <<"p","e","r","c","e","n","t">> >>,
       <<"+", <<"p","l","u","s">> >> >>

\* the slip of replacing a symbol by its word without the spaces around it
ReplaceSymbol_NoPadding(t, symbol, replacement) ==
    Flatten([i \in 1..Len(t) |-> IF t[i] = symbol THEN replacement ELSE <<t[i]>>])

\* text.replace(symbol, f' {replacement} ')
ReplaceSymbol(t, symbol, replacement) ==
    Flatten([i \in 1..Len(t) |->
                IF t[i] = symbol THEN <<" ">> \o replacement \o <<" ">> ELSE <<t[i]>>])

\* the loop over replacements.items()
RECURSIVE ApplyReplacements(_, _)
ApplyReplacements(t, i) ==
    IF i > Len(replacements) THEN t
    ELSE ApplyReplacements(
            ReplaceSymbol(t, replacements[i][1], replacements[i][2]), i + 1)

\* re.sub(r'[^a-z0-9\s-]', '', text)
KeepSlugChars(t) ==
    Flatten([i \in 1..Len(t) |->
                IF t[i] \in LowerSet \cup Digits \cup Whitespace \cup {"-"}
                THEN <<t[i]>> ELSE <<>>])

\* text.replace(' ', '-')
SpacesToHyphens(t) == [i \in 1..Len(t) |-> IF t[i] = " " THEN "-" ELSE t[i]]

\* the slip of a fallback that is not itself a slug
Fallback_NotASlug == <<"N","/","A">>

\* the value returned for a text that normalises to nothing
Fallback == <<"u","n","n","a","m","e","d">>

\* the value returned for an absent or empty text
EmptyResult == <<>>

generate_slug(text) ==
    IF text = None \/ text = <<>> THEN EmptyResult
    ELSE LET lowered  == [i \in 1..Len(text) |-> LowerChar(text[i])]
             ascii    == AsciiText(NfkdText(lowered))
             replaced == ApplyReplacements(ascii, 1)
             kept     == KeepSlugChars(replaced)
             spaced   == Strip(CollapseRuns(kept, Whitespace, <<" ">>), Whitespace)
             hyphened == SpacesToHyphens(spaced)
             trimmed  == Strip(CollapseRuns(hyphened, {"-"}, <<"-">>), {"-"})
         IN  IF trimmed = <<>> THEN Fallback ELSE trimmed

(* ------------------------------ the store ----------------------------- *)

\* A nullable text column other than the name: NULL, or a text of len
\* characters.  Its characters are those of the column it is read from.
NullText == [null |-> TRUE, len |-> 0]
TextOf(n) == [null |-> FALSE, len |-> n]

\* Python's truth value of an Optional[str]
Truthy(v) == ~v.null /\ v.len > 0

\* pain_points[:200] + "..." if len(pain_points) > 200 else pain_points
DescriptionLimit == 200

\* the values a profile column takes: NULL, '', a short text
ShortTexts == {NullText, TextOf(0), TextOf(3)}
\* the same with texts at and over the truncation limit
LongTexts == ShortTexts \cup {TextOf(DescriptionLimit), TextOf(DescriptionLimit + 1)}

NoProfile ==
    [market_size |-> NullText, company_size |-> NullText,
     revenue_threshold |-> NullText, pain_points |-> NullText,
     buying_triggers |-> NullText]

Profiles ==
    [market_size : ShortTexts, company_size : ShortTexts,
     revenue_threshold : ShortTexts, pain_points : LongTexts,
     buying_triggers : LongTexts \ {TextOf(DescriptionLimit)}]

\* company names of the enumerated tables: two of them derive the same slug
SampleNames == { <<"A","b">>, <<"a","b">>, <<"a"," ","b">> }

\* class Company: a row of dbo.company (the columns the endpoints only copy
\* into the response are left out)
CompanyRow(id, name, profile) ==
    [co_rowid |-> id, company_name |-> name,
     market_size |-> profile.market_size,
     company_size |-> profile.company_size,
     revenue_threshold |-> profile.revenue_threshold,
     pain_points |-> profile.pain_points,
     buying_triggers |-> profile.buying_triggers]

\* class JobPost: a row of dbo.job_post; jp_rowid_company is a foreign key
\* into dbo.company
JobRow(id, company) == [jp_rowid |-> id, jp_rowid_company |-> company]

\* tables of up to MaxCompanies companies that differ in their names
NamedTables ==
    UNION { { [i \in 1..n |-> CompanyRow(i, names[i], NoProfile)] :
                names \in [1..n -> SampleNames] } : n \in 0..MaxCompanies }

\* tables of one company, with every profile
ProfiledTables == { <<CompanyRow(1, <<"A","b">>, p)>> : p \in Profiles }

\* up to MaxJobs jobs, dealt in turn to the n companies
JobTables(n) ==
    IF n = 0 THEN { <<>> }
    ELSE { [j \in 1..m |-> JobRow(j, ((j - 1) % n) + 1)] : m \in 0..MaxJobs }

(* ----------------------------- requests ------------------------------- *)

\* Settings.max_page_size
max_page_size == 100

\* the page sizes requested: below, at and over the bounds of the Query
PageSizes == {0, 1, 2, max_page_size, max_page_size + 1}

Pages == 0..MaxPage

Searches == {None, <<>>, <<"B">>}

SlugsAsked == { <<"a","b">>, <<"a","-","b">>, <<"A","b">>, Fallback }

NoRequest ==
    [endpoint |-> "none", page |-> 0, page_size |-> 0, search |-> None,
     slug |-> None, company_id |-> 0]

ListRequests ==
    { [endpoint |-> "get_companies", page |-> p, page_size |-> s, search |-> q,
       slug |-> None, company_id |-> 0] :
        p \in Pages, s \in PageSizes, q \in Searches }

SlugRequests ==
    { [endpoint |-> "get_company_by_slug", page |-> 0, page_size |-> 0,
       search |-> None, slug |-> g, company_id |-> 0] : g \in SlugsAsked }

JobsRequests ==
    { [endpoint |-> "get_company_jobs", page |-> p, page_size |-> s,
       search |-> None, slug |-> None, company_id |-> c] :
        p \in Pages, s \in PageSizes, c \in 1..(MaxCompanies + 1) }

Requests == ListRequests \cup SlugRequests \cup JobsRequests

\* Query(ge=1) on page, Query(ge=1, le=100) on per_page and page_size: the
\* framework answers 422 without calling the endpoint when one fails
QueryValid(r) ==
    r.endpoint = "get_company_by_slug"
    \/ (r.page >= 1 /\ r.page_size >= 1 /\ r.page_size <= 100)

(* ----------------------------- responses ------------------------------ *)

NoResponse ==
    [status |-> 0, detail |-> [text |-> "", args |-> <<>>], total |-> 0, items |-> <<>>,
     total_pages |-> 0, current_page |-> 0, page_size |-> 0]

\* HTTPException(status_code, detail), as the framework renders it
ErrorResponse(code, detail) == [NoResponse EXCEPT !.status = code, !.detail = detail]

\* what one db.execute does: it answers, raises an SQLAlchemyError, or
\* raises another exception
Outcomes == {"ok", "SQLAlchemyError", "Exception"}

(* --------------------------- query results ---------------------------- *)

LowerText(t) == [i \in 1..Len(t) |-> LowerChar(t[i])]

\* company_name ILIKE '%search%'
ILike(name, search) ==
    \E i \in 0..(Len(name) - Len(search)) :
        SubSeq(LowerText(name), i + 1, i + Len(search)) = LowerText(search)

\* the rows the search filter keeps: "if search:" skips None and ''
Matching(search) ==
    { c \in Range(companies) :
        (search = None \/ search = <<>>) \/ ILike(c.company_name, search) }

\* the order ORDER BY company_name compares characters in
CollationOrder == <<" ", "-">> \o LowerLetters

Ord(c) == CHOOSE i \in 1..Len(CollationOrder) : CollationOrder[i] = LowerChar(c)

RECURSIVE NameLeq(_, _)
NameLeq(a, b) ==
    IF a = <<>> THEN TRUE
    ELSE IF b = <<>> THEN FALSE
    ELSE IF Ord(Head(a)) # Ord(Head(b)) THEN Ord(Head(a)) < Ord(Head(b))
    ELSE NameLeq(Tail(a), Tail(b))

\* every sequence that lists the set S once
Orders(S) ==
    { f \in [1..Cardinality(S) -> S] : \A i, j \in 1..Cardinality(S) : f[i] = f[j] => i = j }

\* the orders ORDER BY company_name may return the rows of S in: rows whose
\* names compare equal come in any order
ByName(S) ==
    { f \in Orders(S) :
        \A i, j \in 1..Len(f) : i < j => NameLeq(f[i].company_name, f[j].company_name) }

\* ORDER BY jp_rowid DESC of the set S of job rows
RECURSIVE ByRowidDesc(_)
ByRowidDesc(S) ==
    IF S = {} THEN <<>>
    ELSE LET top == CHOOSE j \in S : \A k \in S : k.jp_rowid <= j.jp_rowid
         IN  <<top>> \o ByRowidDesc(S \ {top})

\* .offset(offset).limit(limit) of the ordered rows
OffsetLimit(ordered, offset, limit) ==
    IF offset >= Len(ordered) THEN <<>>
    ELSE SubSeq(ordered, offset + 1,
                IF offset + limit < Len(ordered) THEN offset + limit ELSE Len(ordered))

\* the slip of dividing with // : the partial last page is not counted
TotalPages_Floor(total_count, per_page) ==
    IF total_count > 0 THEN total_count \div per_page ELSE 0

\* math.ceil(total_count / per_page) if total_count > 0 else 0
TotalPages(total_count, per_page) ==
    IF total_count > 0
    THEN (total_count \div per_page) + (IF total_count % per_page = 0 THEN 0 ELSE 1)
    ELSE 0

\* the off-by-one slip: the last page is taken for a missing one
PageMissing_OffByOne(page, total_pages) == page >= total_pages /\ total_pages > 0

\* if page > total_pages and total_pages > 0: raise HTTPException(400)
PageMissing(page, total_pages) == page > total_pages /\ total_pages > 0

\* if per_page > settings.max_page_size: per_page = settings.max_page_size
ClampPageSize(per_page) ==
    IF per_page > max_page_size THEN max_page_size ELSE per_page

(* ---------------------------- description ----------------------------- *)

\* a piece of a description: a literal, or the first len characters of a column
Lit(text) == [kind |-> "literal", text |-> text, len |-> 0]
Col(column, len) == [kind |-> "column", text |-> column, len |-> len]

\* sep.join(parts)
RECURSIVE Join(_, _)
Join(parts, sep) ==
    IF parts = <<>> THEN <<>>
    ELSE IF Len(parts) = 1 THEN Head(parts)
    ELSE Head(parts) \o <<Lit(sep)>> \o Join(Tail(parts), sep)

\* v[:200] + "..." if len(v) > 200 else v
Truncated(column, v) ==
    IF v.len > DescriptionLimit
    THEN <<Col(column, DescriptionLimit), Lit("...")>>
    ELSE <<Col(column, v.len)>>

\* the parts appended for the market size, company size and revenue
DescriptionParts(company) ==
    (IF Truthy(company.market_size)
     THEN << <<Lit("Market Size: "), Col("market_size", company.market_size.len)>> >>
     ELSE <<>>)
    \o (IF Truthy(company.company_size)
        THEN << <<Lit("Company Size: "), Col("company_size", company.company_size.len)>> >>
        ELSE <<>>)
    \o (IF Truthy(company.revenue_threshold)
        THEN << <<Lit("Revenue: "), Col("revenue_threshold", company.revenue_threshold.len)>> >>
        ELSE <<>>)

\* the slip of testing the pain points before the three profile parts
Description_PainPointsFirst(company) ==
    LET description_parts == DescriptionParts(company)
    IN  IF Truthy(company.pain_points)
        THEN Truncated("pain_points", company.pain_points)
        ELSE IF description_parts # <<>>
             THEN Join(description_parts, " | ")
             ELSE IF Truthy(company.buying_triggers)
                  THEN Truncated("buying_triggers", company.buying_triggers)
                  ELSE <<Lit("Company profile information available")>>

\* the description get_companies gives a company
Description(company) ==
    LET description_parts == DescriptionParts(company)
    IN  IF description_parts = <<>>
        THEN IF Truthy(company.pain_points)
             THEN Truncated("pain_points", company.pain_points)
             ELSE IF Truthy(company.buying_triggers)
                  THEN Truncated("buying_triggers", company.buying_triggers)
                  ELSE <<Lit("Company profile information available")>>
        ELSE Join(description_parts, " | ")

\* CompanyListItem of one fetched row
CompanyItem(company) ==
    [company_name |-> company.company_name,
     company_description |-> Description(company),
     company_slug |-> generate_slug(company.company_name)]

\* JobItem of one fetched row (its columns are copied as they are)
JobItem(job) == [jp_rowid |-> job.jp_rowid, job_description |-> None]

(* ----------------------------- endpoints ------------------------------ *)

\* the detail of an HTTPException: its text and the values formatted into it
Detail(text, args) == [text |-> text, args |-> args]

\* what an endpoint did: the queries it executed (a query that raised is
\* followed by the exception's class), the rows its last row query returned,
\* and the response it returned or the HTTPException it raised
Returned(queries, fetched, response) ==
    [queries |-> queries, rows |-> fetched, raised |-> "none", resp |-> response]

Raised(queries, fetched, code, detail) ==
    [queries |-> queries, rows |-> fetched, raised |-> "HTTPException",
     resp |-> ErrorResponse(code, detail)]

\* the slip of formatting str(e) into the detail sent to the client
CompaniesFailure_Leaky(queries, outcome) ==
    Raised(queries, <<>>, 500, Detail("Database error: {e}", <<outcome>>))

\* the except clauses of get_companies, for a db.execute that raised
CompaniesFailure(queries, outcome) ==
    Raised(queries, <<>>, 500,
           IF outcome = "SQLAlchemyError"
           THEN Detail("Database error occurred while fetching companies", <<>>)
           ELSE Detail("An unexpected error occurred", <<>>))

\* get_companies(page, per_page, search, db), where o1 and o2 are what the
\* count query and the page query do and ordered is the order the store
\* sorts the matching rows in
get_companies(r, o1, o2, ordered) ==
    LET per_page    == ClampPageSize(r.page_size)
        offset      == (r.page - 1) * per_page
        total_count == Cardinality(Matching(r.search))
        total_pages == TotalPages(total_count, per_page)
        fetched     == OffsetLimit(ordered, offset, per_page)
    IN  IF o1 # "ok" THEN CompaniesFailure(<<"execute:count", o1>>, o1)
        ELSE IF PageMissing(r.page, total_pages)
        THEN Raised(<<"execute:count">>, <<>>, 400,
                    Detail("Page {page} does not exist. Total pages: {total_pages}",
                           <<r.page, total_pages>>))
        ELSE IF o2 # "ok" THEN CompaniesFailure(<<"execute:count", "execute:page", o2>>, o2)
        ELSE Returned(<<"execute:count", "execute:page">>, fetched,
                 [status |-> 200, detail |-> Detail("", <<>>),
                  total |-> total_count,
                  items |-> [i \in 1..Len(fetched) |-> CompanyItem(fetched[i])],
                  total_pages |-> total_pages,
                  current_page |-> r.page,
                  page_size |-> per_page])

\* the slip of a loop that does not stop at its first match
FirstMatch_Last(fetched, slug) ==
    IF \E i \in 1..Len(fetched) : generate_slug(fetched[i].company_name) = slug
    THEN CHOOSE i \in 1..Len(fetched) :
            /\ generate_slug(fetched[i].company_name) = slug
            /\ \A j \in (i + 1)..Len(fetched) : generate_slug(fetched[j].company_name) # slug
    ELSE 0

\* the first row, in the order fetched, whose derived slug is the one asked
\* for; 0 when no row derives it
FirstMatch(fetched, slug) ==
    IF \E i \in 1..Len(fetched) : generate_slug(fetched[i].company_name) = slug
    THEN CHOOSE i \in 1..Len(fetched) :
            /\ generate_slug(fetched[i].company_name) = slug
            /\ \A j \in 1..(i - 1) : generate_slug(fetched[j].company_name) # slug
    ELSE 0

\* get_company_by_slug(slug, db), where o1 is what the query does and fetched
\* is the order the store returns all the rows in
get_company_by_slug(r, o1, fetched) ==
    LET found == FirstMatch(fetched, r.slug)
    IN  IF o1 # "ok"
        THEN Raised(<<"execute:all", o1>>, <<>>, 500,
                    Detail("An error occurred while fetching company details", <<>>))
        ELSE IF found = 0
        THEN Raised(<<"execute:all">>, fetched, 404,
                    Detail("Company with slug '{slug}' not found", <<r.slug>>))
        ELSE Returned(<<"execute:all">>, fetched,
                 [status |-> 200, detail |-> Detail("", <<>>), total |-> 1,
                  items |-> <<[co_rowid |-> fetched[found].co_rowid,
                               company_name |-> fetched[found].company_name,
                               company_slug |-> r.slug]>>,
                  total_pages |-> 0, current_page |-> 0, page_size |-> 0])

\* the except clauses of get_company_jobs, for a db.execute that raised
JobsFailure(queries, outcome) ==
    Raised(queries, <<>>, 500,
           IF outcome = "SQLAlchemyError"
           THEN Detail("Database error occurred while fetching company jobs", <<>>)
           ELSE Detail("An unexpected error occurred", <<>>))

\* the slip of leaving the existence check out
CompanyFound_Unchecked(company_id) == TRUE

\* company_result.scalar_one_or_none() of the company query is not None
CompanyFound(company_id) == \E c \in Range(companies) : c.co_rowid = company_id

\* the job rows of one company
JobsOf(company_id) == { j \in Range(job_posts) : j.jp_rowid_company = company_id }

\* get_company_jobs(company_id, page, page_size, db), where o1, o2 and o3 are
\* what the company query, the count query and the page query do
get_company_jobs(r, o1, o2, o3) ==
    LET page_size   == ClampPageSize(r.page_size)
        offset      == (r.page - 1) * page_size
        total_count == Cardinality(JobsOf(r.company_id))
        total_pages == TotalPages(total_count, page_size)
        fetched     == OffsetLimit(ByRowidDesc(JobsOf(r.company_id)), offset, page_size)
    IN  IF o1 # "ok" THEN JobsFailure(<<"execute:company", o1>>, o1)
        ELSE IF ~CompanyFound(r.company_id)
        THEN Raised(<<"execute:company">>, <<>>, 404,
                    Detail("Company with ID {company_id} not found", <<r.company_id>>))
        ELSE IF o2 # "ok"
        THEN JobsFailure(<<"execute:company", "execute:count", o2>>, o2)
        ELSE IF PageMissing(r.page, total_pages)
        THEN Raised(<<"execute:company", "execute:count">>, <<>>, 400,
                    Detail("Page {page} does not exist. Total pages: {total_pages}",
                           <<r.page, total_pages>>))
        ELSE IF o3 # "ok"
        THEN JobsFailure(<<"execute:company", "execute:count", "execute:page", o3>>, o3)
        ELSE Returned(<<"execute:company", "execute:count", "execute:page">>, fetched,
                 [status |-> 200, detail |-> Detail("", <<>>),
                  total |-> total_count,
                  items |-> [i \in 1..Len(fetched) |-> JobItem(fetched[i])],
                  total_pages |-> total_pages,
                  current_page |-> r.page,
                  page_size |-> page_size])

(* ------------------------ the request's session ---------------------- *)

\* the slip of a get_db without its except clause
get_db_exit_NoRollback(thrown) == <<"close", "close">>

\* get_db after its yield: an exception thrown in at the yield is logged,
\* the session is rolled back and the exception re-raised; the finally
\* clause closes the session, and leaving "async with session_local()"
\* closes it once more
get_db_exit(thrown) ==
    (IF thrown THEN <<"rollback">> ELSE <<>>) \o <<"close", "close">>

(* ------------------------------ actions ------------------------------- *)

SlugIdle == arg = None /\ ret = None /\ ret2 = None /\ spc = "unused"

ApiIdle ==
    /\ req = NoRequest
    /\ pc = "idle"
    /\ events = <<>>
    /\ rows = <<>>
    /\ raised = "none"
    /\ resp = NoResponse

\* the tables are in place and no request has arrived
Init ==
    /\ SlugIdle
    /\ ApiIdle
    /\ \/ /\ companies \in NamedTables
          /\ job_posts \in JobTables(Len(companies))
       \/ /\ companies \in ProfiledTables
          /\ job_posts = <<>>

\* a request arrives
Receive ==
    /\ pc = "idle"
    /\ req' \in Requests
    /\ pc' = "received"
    /\ UNCHANGED <<events, rows, raised, resp, storeVars, slugVars>>

\* the framework resolves Depends(get_lead_db): get_db opens a session and
\* yields it
OpenSession ==
    /\ pc = "received"
    /\ events' = events \o <<"open">>
    /\ pc' = "solved"
    /\ UNCHANGED <<req, rows, raised, resp, storeVars, slugVars>>

\* a query parameter fails its Query constraint: the framework answers 422
\* and the endpoint is not called
RejectRequest ==
    /\ pc = "solved"
    /\ ~QueryValid(req)
    /\ raised' = "RequestValidationError"
    /\ resp' = ErrorResponse(422, Detail("validation error", <<>>))
    /\ pc' = "exiting"
    /\ UNCHANGED <<req, events, rows, storeVars, slugVars>>

\* the endpoint runs to its return or to the exception it raises
Finish(result) ==
    /\ events' = events \o result.queries
    /\ rows' = result.rows
    /\ raised' = result.raised
    /\ resp' = result.resp
    /\ pc' = "exiting"
    /\ UNCHANGED <<req, storeVars, slugVars>>

CallGetCompanies ==
    /\ pc = "solved"
    /\ QueryValid(req)
    /\ req.endpoint = "get_companies"
    /\ \E o1, o2 \in Outcomes, ordered \in ByName(Matching(req.search)) :
          Finish(get_companies(req, o1, o2, ordered))

CallGetCompanyBySlug ==
    /\ pc = "solved"
    /\ QueryValid(req)
    /\ req.endpoint = "get_company_by_slug"
    /\ \E o1 \in Outcomes, fetched \in Orders(Range(companies)) :
          Finish(get_company_by_slug(req, o1, fetched))

CallGetCompanyJobs ==
    /\ pc = "solved"
    /\ QueryValid(req)
    /\ req.endpoint = "get_company_jobs"
    /\ \E o1, o2, o3 \in Outcomes :
          Finish(get_company_jobs(req, o1, o2, o3))

\* the framework leaves get_db: an exception of the endpoint is thrown in at
\* the yield; whether a validation error is thrown in too depends on the
\* framework's version
CloseSession ==
    /\ pc = "exiting"
    /\ \E thrown \in BOOLEAN :
          /\ raised = "HTTPException" => thrown
          /\ raised = "none" => ~thrown
          /\ events' = events \o get_db_exit(thrown)
    /\ pc' = "done"
    /\ UNCHANGED <<req, rows, raised, resp, storeVars, slugVars>>

\* the response is sent; the next request starts from nothing
Respond ==
    /\ pc = "done"
    /\ req' = NoRequest
    /\ pc' = "idle"
    /\ events' = <<>>
    /\ rows' = <<>>
    /\ raised' = "none"
    /\ resp' = NoResponse
    /\ UNCHANGED <<storeVars, slugVars>>

Next ==
    \/ Receive
    \/ OpenSession
    \/ RejectRequest
    \/ CallGetCompanies
    \/ CallGetCompanyBySlug
    \/ CallGetCompanyJobs
    \/ CloseSession
    \/ Respond

Spec == Init /\ [][Next]_vars

(* ------------------- generate_slug on its own ------------------------- *)

\* the characters the enumerated inputs are made of
SlugAlphabet == {"a", "B", "1", "-", " ", "\t", "&", "!", "e_acute"}

\* the examples of generate_slug's docstring
TechCorp ==
    <<"T","e","c","h","@","C","o","r","p"," ","S","o","l","u","t","i","o","n","s","!">>
CedarFinancial ==
    <<"C","e","d","a","r"," ","F","i","n","a","n","c","i","a","l">>
AbcXyz ==
    <<"A","B","C"," ","&"," ","X","Y","Z"," ","C","o","m","p","a","n","y">>

SlugInputs ==
    {None, TechCorp, CedarFinancial, AbcXyz}
    \cup UNION { [1..n -> SlugAlphabet] : n \in 0..MaxLen }

SlugInit ==
    /\ arg \in SlugInputs
    /\ ret = None
    /\ ret2 = None
    /\ spc = "start"
    /\ ApiIdle
    /\ companies = <<>>
    /\ job_posts = <<>>

\* generate_slug(arg)
CallSlug ==
    /\ spc = "start"
    /\ ret' = generate_slug(arg)
    /\ spc' = "called"
    /\ UNCHANGED <<arg, ret2, storeVars, apiVars>>

\* generate_slug(generate_slug(arg))
CallSlugAgain ==
    /\ spc = "called"
    /\ ret2' = generate_slug(ret)
    /\ spc' = "again"
    /\ UNCHANGED <<arg, ret, storeVars, apiVars>>

SlugNext == CallSlug \/ CallSlugAgain

SlugSpec == SlugInit /\ [][SlugNext]_vars

(* ------------------------------ the claims ---------------------------- *)

Unnamed == <<"u","n","n","a","m","e","d">>

\* C1: generate_slug never returns the empty string, and for None, "" and
\* "!!!" it returns exactly "unnamed".
C1_NeverEmpty ==
    spc # "start" =>
        /\ ret # <<>>
        /\ arg \in {None, <<>>, <<"!","!","!">>} => ret = Unnamed

\* C2: generate_slug("Tech@Corp Solutions!") returns "techcorp-solutions":
\* the '@' leaves no token of its own and the trailing '!' is dropped.
C2_TechCorpExample ==
    (spc # "start" /\ arg = TechCorp) =>
        ret = <<"t","e","c","h","c","o","r","p","-",
                "s","o","l","u","t","i","o","n","s">>

\* the requests of the two paginated endpoints
IsPaged == req.endpoint \in {"get_companies", "get_company_jobs"}

\* no db.execute of the request raised
StoreAnswered ==
    \A i \in 1..Len(events) : events[i] \notin {"SQLAlchemyError", "Exception"}

Executed(query) == \E i \in 1..Len(events) : events[i] = query

\* C3: in the company list and company jobs endpoints a requested page size
\* above the cap of 100 is not rejected: the request is served as if the page
\* size were 100 and the response reports page size 100.
C3_CapClamped ==
    (pc = "done" /\ IsPaged /\ req.page >= 1 /\ req.page_size > 100) =>
        /\ resp.status # 422
        /\ resp.status = 200 => resp.page_size = 100

\* C4: on every exit path of a request its session is closed, exactly one
\* session was opened for it, and when the endpoint left with an error a
\* rollback was issued on the session before it was closed.
C4_SessionReleased ==
    pc = "done" =>
        /\ Cardinality({i \in 1..Len(events) : events[i] = "open"}) = 1
        /\ events[1] = "open"
        /\ events[Len(events)] = "close"
        /\ raised = "HTTPException" =>
              \E i \in 1..Len(events) :
                  /\ events[i] = "rollback"
                  /\ \A j \in 1..i : events[j] # "close"

C4_Witness ==
    /\ pc = "done"
    /\ resp.status = 500
    /\ events = <<"open", "execute:count", "SQLAlchemyError", "rollback", "close", "close">>

\* the number of rows the request's count query counts
TotalOf(r) ==
    IF r.endpoint = "get_companies"
    THEN Cardinality(Matching(r.search))
    ELSE Cardinality(JobsOf(r.company_id))

\* ceil(T / P): the least n with n * P >= T
CeilOf(T, P) ==
    CHOOSE n \in 0..T : n * P >= T /\ \A m \in 0..(n - 1) : m * P < T

\* the orders the request's endpoint sorts all its rows in: by company name,
\* or by job identifier descending
SortOrders(r) ==
    IF r.endpoint = "get_companies"
    THEN { f \in Orders(Matching(r.search)) :
            \A i \in 1..(Len(f) - 1) : NameLeq(f[i].company_name, f[i + 1].company_name) }
    ELSE { f \in Orders(JobsOf(r.company_id)) :
            \A i \in 1..(Len(f) - 1) : f[i].jp_rowid > f[i + 1].jp_rowid }

\* the items of the response are those of the rows fetched, in their order
ItemsOfRows ==
    /\ Len(resp.items) = Len(rows)
    /\ \A i \in 1..Len(rows) :
          IF req.endpoint = "get_companies"
          THEN resp.items[i].company_name = rows[i].company_name
          ELSE resp.items[i].jp_rowid = rows[i].jp_rowid

\* C5: in get_companies and get_company_jobs, for a total count T > 0 and
\* page size P, a request with page > ceil(T/P) ends with a 400 error and
\* returns no items, and a request with page = ceil(T/P) succeeds and returns
\* exactly the T - (page-1)*P rows from offset (page-1)*P on in the
\* endpoint's sort order.  (The request is one that reached the endpoint,
\* and the status is stated for a request whose queries the store answered.)
C5_LastPage ==
    (pc = "done" /\ IsPaged /\ QueryValid(req) /\ TotalOf(req) > 0) =>
        LET T    == TotalOf(req)
            P    == req.page_size
            last == CeilOf(T, P)
        IN  /\ req.page > last =>
                /\ resp.items = <<>>
                /\ resp.status # 200
                /\ StoreAnswered => resp.status = 400
            /\ (req.page = last /\ StoreAnswered) =>
                /\ resp.status = 200
                /\ Len(resp.items) = T - (req.page - 1) * P
                /\ \E f \in SortOrders(req) :
                      rows = SubSeq(f, (req.page - 1) * P + 1, T)
                /\ ItemsOfRows

C5_Witness ==
    /\ pc = "done"
    /\ req.endpoint = "get_company_jobs"
    /\ req.page = 2
    /\ req.page_size = 2
    /\ TotalOf(req) = 3
    /\ resp.status = 200
    /\ Len(resp.items) = 1
    /\ resp.items[1].jp_rowid = 1

\* C6: in every successful response of get_companies and get_company_jobs,
\* total_pages is ceil(T/P) for the reported total count T and the reported
\* page size P > 0, and total_pages is 0 exactly when T is 0.
C6_TotalPages ==
    (pc = "done" /\ IsPaged /\ resp.status = 200) =>
        /\ resp.page_size > 0
        /\ resp.total = TotalOf(req)
        /\ resp.total_pages = CeilOf(resp.total, resp.page_size)
        /\ resp.total_pages = 0 <=> resp.total = 0

C6_Witness ==
    /\ pc = "done"
    /\ IsPaged
    /\ resp.status = 200
    /\ resp.total = 3
    /\ resp.page_size = 2
    /\ resp.total_pages = 2

\* C7: in get_company_jobs, when no company has the requested identifier,
\* the request ends with a 404 error whatever the page and the page size,
\* neither the job count query nor the job page query is executed, and no
\* 400 page-overflow error is produced.  (The 404 is stated for a request
\* that reached the endpoint and whose company query the store answered.)
C7_MissingCompany ==
    (/\ pc = "done"
     /\ req.endpoint = "get_company_jobs"
     /\ \A i \in 1..Len(companies) : companies[i].co_rowid # req.company_id) =>
        /\ ~Executed("execute:count")
        /\ ~Executed("execute:page")
        /\ resp.status \notin {200, 400}
        /\ (QueryValid(req) /\ StoreAnswered) => resp.status = 404

C7_Witness ==
    /\ pc = "done"
    /\ req.endpoint = "get_company_jobs"
    /\ Len(companies) = MaxCompanies
    /\ Len(job_posts) > 0
    /\ req.company_id = MaxCompanies + 1
    /\ req.page = MaxPage
    /\ req.page_size = 1
    /\ resp.status = 404
    /\ events = <<"open", "execute:company", "rollback", "close", "close">>

\* C8: get_company_by_slug returns the first company, in the row order the
\* store returns, whose generate_slug(company_name) is the requested slug,
\* also when several companies derive that slug; when no company derives it
\* the request ends with a 404 error.  (Stated for a request whose query the
\* store answered.)
C8_FirstMatchWins ==
    (pc = "done" /\ req.endpoint = "get_company_by_slug" /\ StoreAnswered) =>
        LET hits == { i \in 1..Len(rows) :
                        generate_slug(rows[i].company_name) = req.slug }
        IN  /\ rows \in Orders(Range(companies))
            /\ hits = {} => resp.status = 404
            /\ hits # {} =>
                /\ resp.status = 200
                /\ \E i \in hits :
                      /\ \A j \in hits : i <= j
                      /\ resp.items[1].co_rowid = rows[i].co_rowid
                      /\ resp.items[1].company_name = rows[i].company_name

C8_Witness ==
    /\ pc = "done"
    /\ req.endpoint = "get_company_by_slug"
    /\ resp.status = 200
    /\ Len(rows) = 2
    /\ rows[1].co_rowid = 2
    /\ generate_slug(rows[1].company_name) = req.slug
    /\ generate_slug(rows[2].company_name) = req.slug
    /\ rows[1].company_name # rows[2].company_name
    /\ resp.items[1].co_rowid = 2

\* the characters of the slug function's output alphabet and their capitals
SlugChars == LowerSet \cup Range(UpperLetters) \cup Digits \cup {"-"}

\* C9: generate_slug is idempotent on its own output alphabet: for every
\* text x of ASCII letters, digits and hyphens,
\* generate_slug(generate_slug(x)) = generate_slug(x).
C9_Idempotent ==
    (/\ spc = "again"
     /\ arg # None
     /\ \A i \in 1..Len(arg) : arg[i] \in SlugChars) => ret2 = ret

C9_Witness ==
    /\ spc = "again"
    /\ arg = <<"-", "B", "-", "1">>
    /\ ret = <<"b", "-", "1">>
    /\ ret2 = <<"b", "-", "1">>

\* a profile column that is neither NULL nor ''
NonEmpty(v) == v # NullText /\ v # TextOf(0)

\* the labelled non-empty fields of a row in the order Market Size, Company
\* Size, Revenue, joined by " | "
LabelledFields(row) ==
    LET m == NonEmpty(row.market_size)
        c == NonEmpty(row.company_size)
        r == NonEmpty(row.revenue_threshold)
    IN  (IF m THEN <<Lit("Market Size: "), Col("market_size", row.market_size.len)>>
              ELSE <<>>)
        \o (IF m /\ c THEN <<Lit(" | ")>> ELSE <<>>)
        \o (IF c THEN <<Lit("Company Size: "), Col("company_size", row.company_size.len)>>
                 ELSE <<>>)
        \o (IF (m \/ c) /\ r THEN <<Lit(" | ")>> ELSE <<>>)
        \o (IF r THEN <<Lit("Revenue: "),
                        Col("revenue_threshold", row.revenue_threshold.len)>>
                 ELSE <<>>)

Mentions(d, texts) == \E k \in 1..Len(d) : d[k].text \in texts

\* C10: in get_companies, whenever one of market_size, company_size and
\* revenue_threshold of a company is non-empty, its description is the
\* " | "-joined list of the labelled non-empty fields in the order Market
\* Size, Company Size, Revenue and holds neither pain_points nor
\* buying_triggers; pain_points, then buying_triggers, then the placeholder
\* are used only when all three fields are empty.
C10_DescriptionPriority ==
    (pc = "done" /\ req.endpoint = "get_companies" /\ resp.status = 200) =>
        \A i \in 1..Len(rows) :
            LET row  == rows[i]
                d    == resp.items[i].company_description
                some == \/ NonEmpty(row.market_size)
                        \/ NonEmpty(row.company_size)
                        \/ NonEmpty(row.revenue_threshold)
            IN  /\ some =>
                    /\ d = LabelledFields(row)
                    /\ ~Mentions(d, {"pain_points", "buying_triggers"})
                /\ Mentions(d, {"pain_points", "buying_triggers",
                                "Company profile information available"}) => ~some
                /\ ~some =>
                    IF NonEmpty(row.pain_points)
                    THEN d[1].text = "pain_points"
                    ELSE IF NonEmpty(row.buying_triggers)
                         THEN d[1].text = "buying_triggers"
                         ELSE d = <<Lit("Company profile information available")>>

C10_Witness ==
    /\ pc = "done"
    /\ req.endpoint = "get_companies"
    /\ resp.status = 200
    /\ Len(rows) = 1
    /\ NonEmpty(rows[1].market_size)
    /\ NonEmpty(rows[1].revenue_threshold)
    /\ ~NonEmpty(rows[1].company_size)
    /\ NonEmpty(rows[1].pain_points)
    /\ NonEmpty(rows[1].buying_triggers)
    /\ resp.items[1].company_description =
          <<Lit("Market Size: "), Col("market_size", 3), Lit(" | "),
            Lit("Revenue: "), Col("revenue_threshold", 3)>>

\* ASCII letters and digits
Alnum == LowerSet \cup Range(UpperLetters) \cup Digits

\* the lowercased words of a name whose words are separated by spaces and
\* '&' symbols, with the token "and" where each '&' stands; word is the
\* word being read
RECURSIVE TokensOf(_, _)
TokensOf(t, word) ==
    LET flushed == IF word = <<>> THEN <<>> ELSE <<word>>
    IN  IF t = <<>> THEN flushed
        ELSE IF Head(t) = " " THEN flushed \o TokensOf(Tail(t), <<>>)
        ELSE IF Head(t) = "&"
             THEN flushed \o << <<"a","n","d">> >> \o TokensOf(Tail(t), <<>>)
        ELSE TokensOf(Tail(t), Append(word, LowerChar(Head(t))))

\* the tokens joined by single hyphens
RECURSIVE HyphenJoined(_)
HyphenJoined(tokens) ==
    IF tokens = <<>> THEN <<>>
    ELSE IF Len(tokens) = 1 THEN tokens[1]
    ELSE tokens[1] \o <<"-">> \o HyphenJoined(Tail(tokens))

\* a name of alphanumeric words separated by spaces and '&' symbols
IsWordsName(t) ==
    /\ t # None
    /\ \A i \in 1..Len(t) : t[i] \in Alnum \cup {" ", "&"}
    /\ \E i \in 1..Len(t) : t[i] \in Alnum

WellFormedSlug(t) ==
    /\ \A i \in 1..Len(t) : t[i] \in LowerSet \cup Digits \cup {"-"}
    /\ t # <<>> => (t[1] # "-" /\ t[Len(t)] # "-")
    /\ \A i \in 1..(Len(t) - 1) : ~(t[i] = "-" /\ t[i + 1] = "-")

\* C12: every value generate_slug returns consists only of the characters
\* a-z, 0-9 and '-', does not begin or end with '-', and contains no two
\* consecutive '-'.
C12_SlugShape ==
    /\ spc # "start" => WellFormedSlug(ret)
    /\ spc = "again" => WellFormedSlug(ret2)

C12_Witness ==
    /\ spc = "called"
    /\ arg = <<"-", "\t", "-", "B">>
    /\ ret = <<"b">>

\* the queries the endpoints execute
Queries == {"execute:count", "execute:page", "execute:all", "execute:company"}

\* the exceptions a db.execute raises
Failures == {"SQLAlchemyError", "Exception"}

\* the fixed details of the endpoints' 500 responses
GenericDetails ==
    { "Database error occurred while fetching companies",
      "Database error occurred while fetching company jobs",
      "An unexpected error occurred",
      "An error occurred while fetching company details" }

\* C13: in all three company endpoints, when a database query fails the
\* request ends with one 500 response whose detail is a fixed generic
\* message holding no text of the underlying error, and neither the failed
\* query nor any later query of the request is executed again.
C13_FailsOnce ==
    (pc = "done" /\ ~StoreAnswered) =>
        /\ resp.status = 500
        /\ resp.detail.text \in GenericDetails
        /\ resp.detail.args = <<>>
        /\ resp.items = <<>>
        /\ Cardinality({i \in 1..Len(events) : events[i] \in Failures}) = 1
        /\ \A k \in 1..Len(events) :
              events[k] \in Failures =>
                  /\ k > 1
                  /\ events[k - 1] \in Queries
                  /\ \A j \in (k + 1)..Len(events) : events[j] \notin Queries
        /\ \A i, j \in 1..Len(events) :
              (events[i] \in Queries /\ events[i] = events[j]) => i = j

C13_Witness ==
    /\ pc = "done"
    /\ req.endpoint = "get_company_jobs"
    /\ resp.status = 500
    /\ resp.detail = Detail("Database error occurred while fetching company jobs", <<>>)
    /\ events = <<"open", "execute:company", "execute:count", "SQLAlchemyError",
                  "rollback", "close", "close">>

====
